---------------------------- MODULE Spec2Model ----------------------------
(***************************************************************************)
(* Model of the Food AI Assistant chat screen (src/app/_layout.tsx):       *)
(* the entity extractor, the response generator and the sendMessage /      *)
(* reply-timer handlers of the RootLayout component.                       *)
(*                                                                         *)
(* A JavaScript string is the sequence of its characters, each character a *)
(* TLA+ string of length one; '' is the empty sequence.  Every string      *)
(* literal of the source is a constant of the module (a named one, or an   *)
(* entry of lit), turned into its character sequence by chars.             *)
(* Message.timestamp (Date.now()) is written but never read by any code of *)
(* the component, so messages carry text and sender only.  The two emoji   *)
(* outside the Basic Multilingual Plane (the truck of the tracking line,   *)
(* the waving hand of the welcome) and the bullet of the capability menu   *)
(* are written with symbols the TLA+ lexer accepts.                        *)
(***************************************************************************)
EXTENDS Integers, Sequences, FiniteSets, TLC

VARIABLES
    messages,         \* useState<Message[]>          (line 42)
    inputText,        \* useState('')                 (line 43)
    isTyping,         \* useState(false)              (line 44)
    userPreferences,  \* useState<UserPreferences>    (line 49)
    timers,           \* pending 1500 ms reply timers, in firing order, each
                      \* with the values its closure captured (line 194)
    call              \* direct invocation of generateAIResponse: its
                      \* argument, the preferences it read and its result

vars == <<messages, inputText, isTyping, userPreferences, timers, call>>

-----------------------------------------------------------------------------
(* Bounds of the model *)

\* number of sendMessage calls in one behaviour
MaxTurns == 3
\* number of words in an utterance handed directly to generateAIResponse
MaxWords == 2

-----------------------------------------------------------------------------
(* String literals *)

\* the character sequence of a TLA+ string
chars(s) == [i \in 1..Len(s) |-> SubSeq(s, i, i)]

\* the short literals of extractEntities and generateAIResponse
Literals ==
    {"indian", "chinese", "italian", "mexican", "thai",
     "vegetarian", "vegan", "gluten-free",
     "order", "track", "find", "recommend", "search",
     "under ₹", " ", ", ", ".", ":\n\n",
     "I found some great ", "options ",
     "Based on your love for ", "and your ", " preferences",
     "Would you like to reorder from ", "? Your last order was ",
     "I can help you place an order. What would you like to eat?"}

lit == [s \in Literals |-> chars(s)]

-----------------------------------------------------------------------------
(* String primitives of the JavaScript runtime *)

UpperCase == chars("ABCDEFGHIJKLMNOPQRSTUVWXYZ")
LowerCase == chars("abcdefghijklmnopqrstuvwxyz")

\* the lower-case letter of each upper-case letter
lowerOf ==
    [c \in {UpperCase[i] : i \in 1..Len(UpperCase)} |->
        LowerCase[CHOOSE i \in 1..Len(UpperCase) : UpperCase[i] = c]]

lowerChar(c) == IF c \in DOMAIN lowerOf THEN lowerOf[c] ELSE c

\* String.prototype.toLowerCase
toLowerCase(s) == [i \in 1..Len(s) |-> lowerChar(s[i])]

\* String.prototype.includes
includes(s, t) ==
    \E i \in 0..(Len(s) - Len(t)) : SubSeq(s, i + 1, i + Len(t)) = t

WhiteSpace == {" ", "\t", "\n", "\r"}
Digits == chars("0123456789")

\* the value of each decimal digit
valueOf ==
    [c \in {Digits[d] : d \in 1..Len(Digits)} |->
        (CHOOSE d \in 1..Len(Digits) : Digits[d] = c) - 1]

isSpace(c) == c \in WhiteSpace
isDigit(c) == c \in DOMAIN valueOf
digitValue(c) == valueOf[c]

\* String.prototype.trim
RECURSIVE trimStart(_)
trimStart(s) ==
    IF Len(s) > 0 /\ isSpace(s[1]) THEN trimStart(SubSeq(s, 2, Len(s))) ELSE s
RECURSIVE trimEnd(_)
trimEnd(s) ==
    IF Len(s) > 0 /\ isSpace(s[Len(s)]) THEN trimEnd(SubSeq(s, 1, Len(s) - 1)) ELSE s
trim(s) == trimEnd(trimStart(s))

\* parseInt of a run of decimal digits, from the i-th on
RECURSIVE parseIntFrom(_, _, _)
parseIntFrom(s, i, acc) ==
    IF i > Len(s) THEN acc ELSE parseIntFrom(s, i + 1, acc * 10 + digitValue(s[i]))
parseInt(s) == parseIntFrom(s, 1, 0)

\* `${n}` for a non-negative integer n
RECURSIVE numberToString(_)
numberToString(n) ==
    IF n < 10 THEN <<Digits[n + 1]>>
    ELSE Append(numberToString(n \div 10), Digits[(n % 10) + 1])

\* Array.prototype.join
RECURSIVE join(_, _)
join(arr, sep) ==
    IF Len(arr) = 0 THEN <<>>
    ELSE IF Len(arr) = 1 THEN arr[1]
    ELSE arr[1] \o sep \o join(Tail(arr), sep)

\* [...new Set(arr)]: first occurrences, in order
RECURSIVE uniqueFrom(_, _, _)
uniqueFrom(arr, i, acc) ==
    IF i > Len(arr) THEN acc
    ELSE uniqueFrom(arr, i + 1,
            IF \E k \in 1..Len(acc) : acc[k] = arr[i] THEN acc ELSE Append(acc, arr[i]))
unique(arr) == uniqueFrom(arr, 1, <<>>)

-----------------------------------------------------------------------------
(* extractEntities *)

cuisines == <<lit["indian"], lit["chinese"], lit["italian"], lit["mexican"], lit["thai"]>>
dietary == <<lit["vegetarian"], lit["vegan"], lit["gluten-free"]>>
actions == <<lit["order"], lit["track"], lit["find"], lit["recommend"], lit["search"]>>

\* a scan that keeps the first term found
RECURSIVE forEachMatchFirstWins(_, _, _, _)
forEachMatchFirstWins(list, lower, i, field) ==
    IF i > Len(list) THEN field
    ELSE forEachMatchFirstWins(list, lower, i + 1,
            IF field = <<>> /\ includes(lower, list[i]) THEN list[i] ELSE field)

\* list.forEach(term => { if (message.toLowerCase().includes(term)) field = term }),
\* from the i-th term on; lower is message.toLowerCase()
RECURSIVE forEachMatch(_, _, _, _)
forEachMatch(list, lower, i, field) ==
    IF i > Len(list) THEN field
    ELSE forEachMatch(list, lower, i + 1,
            IF includes(lower, list[i]) THEN list[i] ELSE field)

\* greedy \s* starting at index i: the index of the first non-space
RECURSIVE skipSpaces(_, _)
skipSpaces(s, i) ==
    IF i <= Len(s) /\ isSpace(s[i]) THEN skipSpaces(s, i + 1) ELSE i

\* greedy \d+ starting at index i: the index after the last digit
RECURSIVE skipDigits(_, _)
skipDigits(s, i) ==
    IF i <= Len(s) /\ isDigit(s[i]) THEN skipDigits(s, i + 1) ELSE i

\* the capture group of /₹\s*(\d+)/ anchored at index i, empty when the
\* regex does not match there
matchAt(s, i) ==
    IF s[i] # "₹" THEN <<>>
    ELSE LET j == skipSpaces(s, i + 1)
             k == skipDigits(s, j)
         IN  SubSeq(s, j, k - 1)

\* a scan that keeps the rightmost match
RECURSIVE priceMatchLast(_, _)
priceMatchLast(s, i) ==
    IF i > Len(s) THEN <<>>
    ELSE IF priceMatchLast(s, i + 1) # <<>> THEN priceMatchLast(s, i + 1)
    ELSE matchAt(s, i)

\* message.match(/₹\s*(\d+)/)[1], scanning from index i: the regex is not
\* global, so the scan stops at the leftmost index where it matches; the
\* empty sequence stands for a null match
RECURSIVE priceMatch(_, _)
priceMatch(s, i) ==
    IF i > Len(s) THEN <<>>
    ELSE IF matchAt(s, i) # <<>> THEN matchAt(s, i)
    ELSE priceMatch(s, i + 1)

extractEntities(message) ==
    LET lower == toLowerCase(message)
        match == priceMatch(message, 1)
    IN  [cuisine |-> forEachMatch(cuisines, lower, 1, <<>>),
         price   |-> IF match # <<>> THEN parseInt(match) ELSE 0,
         dietary |-> forEachMatch(dietary, lower, 1, <<>>),
         action  |-> forEachMatch(actions, lower, 1, <<>>)]

-----------------------------------------------------------------------------
(* generateAIResponse *)

\* the initial value of the userPreferences state; lastOrder is a sequence
\* holding the order when the optional field is set, empty when it is not
initialPreferences ==
    [dietaryRestrictions |-> <<>>,
     favoriteCuisines    |-> <<>>,
     priceRange          |-> [min |-> 0, max |-> 1000],
     lastOrder           |-> <<>>]

\* an updater that appends without the Set
updateDietaryAppend(prev, entities) ==
    IF entities.dietary # <<>>
    THEN [prev EXCEPT !.dietaryRestrictions =
              Append(prev.dietaryRestrictions, entities.dietary)]
    ELSE prev

\* the updater handed to setUserPreferences when entities.dietary is truthy
updateDietary(prev, entities) ==
    IF entities.dietary # <<>>
    THEN [prev EXCEPT !.dietaryRestrictions =
              unique(Append(prev.dietaryRestrictions, entities.dietary))]
    ELSE prev

\* an updater that writes the whole range
updatePriceWholeRange(prev, entities) ==
    IF entities.price # 0
    THEN [prev EXCEPT !.priceRange = [min |-> entities.price, max |-> entities.price]]
    ELSE prev

\* the updater handed to setUserPreferences when entities.price is truthy
updatePrice(prev, entities) ==
    IF entities.price # 0
    THEN [prev EXCEPT !.priceRange = [prev.priceRange EXCEPT !.max = entities.price]]
    ELSE prev

orderReply(prefs) ==
    IF Len(prefs.lastOrder) > 0
    THEN lit["Would you like to reorder from "] \o prefs.lastOrder[1].restaurant
         \o lit["? Your last order was "] \o join(prefs.lastOrder[1].items, lit[", "])
         \o lit["."]
    ELSE lit["I can help you place an order. What would you like to eat?"]

trackReply ==
    chars("Your order #12345 is on its way! ⛟\nEstimated delivery time: 15 minutes")

findListing ==
    chars("1. Royal Biryani - ₹299\n") \o
    chars("2. Spice Garden - ₹350\n") \o
    chars("3. Tasty Treats - ₹250\n\n") \o
    chars("Would you like to order any of these?")

findReply(entities) ==
    LET priceFilter   == IF entities.price # 0
                         THEN lit["under ₹"] \o numberToString(entities.price) ELSE <<>>
        dietaryFilter == IF entities.dietary # <<>> THEN entities.dietary \o lit[" "] ELSE <<>>
        cuisineFilter == IF entities.cuisine # <<>> THEN entities.cuisine \o lit[" "] ELSE <<>>
    IN  lit["I found some great "] \o dietaryFilter \o cuisineFilter \o lit["options "]
        \o priceFilter \o lit[":\n\n"] \o findListing

recommendListing ==
    chars("1. Healthy Bowl - Low calorie, high protein\n") \o
    chars("2. Veggie Delight - Fresh and nutritious\n") \o
    chars("3. Protein Power Pack - Perfect for fitness\n\n") \o
    chars("Would you like to know more about any of these?")

\* a recommendation that returns the leading sentence alone
recommendReplySentenceOnly(prefs) ==
    join((IF Len(prefs.favoriteCuisines) > 0
          THEN <<lit["Based on your love for "] \o join(prefs.favoriteCuisines, lit[", "])>>
          ELSE <<>>)
         \o
         (IF Len(prefs.dietaryRestrictions) > 0
          THEN <<lit["and your "] \o join(prefs.dietaryRestrictions, lit[", "])
                 \o lit[" preferences"]>>
          ELSE <<>>), lit[" "])

recommendReply(prefs) ==
    LET first  == IF Len(prefs.favoriteCuisines) > 0
                  THEN <<lit["Based on your love for "]
                         \o join(prefs.favoriteCuisines, lit[", "])>>
                  ELSE <<>>
        second == IF Len(prefs.dietaryRestrictions) > 0
                  THEN <<lit["and your "] \o join(prefs.dietaryRestrictions, lit[", "])
                         \o lit[" preferences"]>>
                  ELSE <<>>
        recommendations == first \o second
    IN  join(recommendations, lit[" "]) \o lit[":\n\n"] \o recommendListing

defaultReply ==
    chars("I can help you with:\n") \o
    chars("* Finding restaurants\n") \o
    chars("* Placing orders\n") \o
    chars("* Tracking deliveries\n") \o
    chars("* Getting recommendations\n\n") \o
    chars("What would you like to do?")

\* a decision list in which a dietary term picks the recommendation
selectReplyDietaryBranch(entities, prefs) ==
    IF entities.action = lit["order"] THEN orderReply(prefs)
    ELSE IF entities.action = lit["track"] THEN trackReply
    ELSE IF entities.dietary # <<>> \/ entities.action = lit["recommend"]
    THEN recommendReply(prefs)
    ELSE IF entities.action = lit["find"] \/ entities.action = lit["search"]
    THEN findReply(entities)
    ELSE defaultReply

\* the decision list of generateAIResponse over the extracted entities and
\* the userPreferences value its closure reads
selectReply(entities, prefs) ==
    IF entities.action = lit["order"] THEN orderReply(prefs)
    ELSE IF entities.action = lit["track"] THEN trackReply
    ELSE IF entities.action = lit["find"] \/ entities.action = lit["search"]
    THEN findReply(entities)
    ELSE IF entities.action = lit["recommend"] THEN recommendReply(prefs)
    ELSE defaultReply

\* the string generateAIResponse returns; prefs is the userPreferences of
\* the render whose closure is running
generateAIResponse(userMessage, prefs) ==
    selectReply(extractEntities(userMessage), prefs)

\* the userPreferences state once the updaters generateAIResponse enqueued
\* have run on the current state prev
updatedPreferences(userMessage, prev) ==
    LET entities == extractEntities(userMessage)
    IN  updatePrice(updateDietary(prev, entities), entities)

-----------------------------------------------------------------------------
(* The chat screen *)

welcomeMessage ==
    [text   |-> chars("\\o/ Hi! I'm your Food AI Assistant. I can help you find restaurants, place orders, and track deliveries. What would you like to do?"),
     sender |-> "ai"]

\* the texts onChangeText puts into the input box
TypedTexts ==
    {chars(t) : t \in
        {" ", "I want to order", "Recommend vegan food",
         "find vegetarian indian food under ₹300", "vegan meals for ₹0",
         "search thai ₹ 200"}}

noCall ==
    [done |-> FALSE, userMessage |-> <<>>, seen |-> initialPreferences, reply |-> <<>>]

Init ==
    /\ messages = <<welcomeMessage>>
    /\ inputText = <<>>
    /\ isTyping = FALSE
    /\ userPreferences = initialPreferences
    /\ timers = <<>>
    /\ call = noCall

userTurns == Cardinality({i \in 1..Len(messages) : messages[i].sender = "user"})

\* onChangeText={setInputText}
ChangeText(text) ==
    /\ inputText' = text
    /\ UNCHANGED <<messages, isTyping, userPreferences, timers, call>>

sendMessage ==
    /\ userTurns < MaxTurns
    /\ trim(inputText) # <<>>
    /\ messages' = Append(messages, [text |-> inputText, sender |-> "user"])
    /\ inputText' = <<>>
    /\ isTyping' = TRUE
    /\ timers' = Append(timers, [inputText |-> inputText,
                                 userPreferences |-> userPreferences])
    /\ UNCHANGED <<userPreferences, call>>

\* the callback of the 1500 ms timer set by sendMessage; equal delays fire
\* in the order they were set
replyTimer ==
    /\ timers # <<>>
    /\ LET closure    == Head(timers)
           aiResponse == generateAIResponse(closure.inputText, closure.userPreferences)
       IN  /\ userPreferences' = updatedPreferences(closure.inputText, userPreferences)
           /\ messages' = Append(messages, [text |-> aiResponse, sender |-> "ai"])
    /\ isTyping' = FALSE
    /\ timers' = Tail(timers)
    /\ UNCHANGED <<inputText, call>>

Next ==
    \/ \E text \in TypedTexts : ChangeText(text)
    \/ sendMessage
    \/ replyTimer

Spec == Init /\ [][Next]_vars

-----------------------------------------------------------------------------
(* generateAIResponse called on its own, on any utterance *)

Words ==
    {chars(w) : w \in
        {"order", "track", "find", "recommend", "search",
         "vegetarian", "vegan", "gluten-free",
         "indian", "chinese", "thai",
         "hello", "findings", "VEGAN", "Track",
         "₹200", "₹0", "₹007", "₹", "5"}}

Utterances ==
    {join(ws, lit[" "]) : ws \in UNION {[1..n -> Words] : n \in 0..MaxWords}}

\* values of userPreferences the screen can hold when a reply is generated
SeenPreferences ==
    {initialPreferences,
     [initialPreferences EXCEPT !.dietaryRestrictions = <<lit["vegan"]>>],
     [initialPreferences EXCEPT !.dietaryRestrictions = <<lit["vegetarian"], lit["vegan"]>>,
                                !.priceRange.max = 200]}

InitFn ==
    /\ messages = <<welcomeMessage>>
    /\ inputText = <<>>
    /\ isTyping = FALSE
    /\ userPreferences \in SeenPreferences
    /\ timers = <<>>
    /\ call \in {[noCall EXCEPT !.userMessage = u] : u \in Utterances}

invoke ==
    /\ ~call.done
    /\ call' = [call EXCEPT !.done = TRUE,
                            !.seen = userPreferences,
                            !.reply = generateAIResponse(call.userMessage, userPreferences)]
    /\ userPreferences' = updatedPreferences(call.userMessage, userPreferences)
    /\ UNCHANGED <<messages, inputText, isTyping, timers>>

NextFn == invoke

SpecFn == InitFn /\ [][NextFn]_vars

-----------------------------------------------------------------------------
(* Properties of extractEntities and generateAIResponse, under SpecFn *)

startsWith(s, prefix) == Len(prefix) <= Len(s) /\ SubSeq(s, 1, Len(prefix)) = prefix
endsWith(s, suffix) ==
    Len(suffix) <= Len(s) /\ SubSeq(s, Len(s) - Len(suffix) + 1, Len(s)) = suffix

\* the entities of the utterance of the direct call
callEntities == extractEntities(call.userMessage)

\* the indices of the terms of a vocabulary that the utterance contains
termsIn(list, message) ==
    {i \in 1..Len(list) : includes(toLowerCase(message), list[i])}

\* the indices of the utterance at which a currency-prefixed digit run starts
pricesIn(message) == {i \in 1..Len(message) : matchAt(message, i) # <<>>}

maxOf(S) == CHOOSE x \in S : \A y \in S : y <= x
minOf(S) == CHOOSE x \in S : \A y \in S : x <= y

\* C1: generateAIResponse returns a reply of non-zero length for every
\* utterance (the empty one and those without any vocabulary term included)
\* and every value of userPreferences it can read, the recommend branch with
\* empty favoriteCuisines and dietaryRestrictions included.
C1_Totality == call.done => Len(call.reply) > 0

\* C1 witness: a recommend reply generated from empty favoriteCuisines and
\* dietaryRestrictions.
C1_Witness ==
    /\ call.done
    /\ callEntities.action = lit["recommend"]
    /\ call.seen.favoriteCuisines = <<>>
    /\ call.seen.dietaryRestrictions = <<>>

\* the template a reply is an instance of
C4_TemplateOf(reply) ==
    IF reply = lit["I can help you place an order. What would you like to eat?"]
       \/ startsWith(reply, lit["Would you like to reorder from "])
    THEN "order"
    ELSE IF reply = trackReply THEN "track"
    ELSE IF startsWith(reply, lit["I found some great "]) /\ endsWith(reply, findListing)
    THEN "listing"
    ELSE IF endsWith(reply, lit[":\n\n"] \o recommendListing) THEN "recommend"
    ELSE IF reply = defaultReply THEN "menu"
    ELSE "none"

\* the template the claim assigns to an action
C4_TemplateFor(action) ==
    CASE action = lit["order"] -> "order"
      [] action = lit["track"] -> "track"
      [] action \in {lit["find"], lit["search"]} -> "listing"
      [] action = lit["recommend"] -> "recommend"
      [] action = <<>> -> "menu"

\* C4: the template of the reply is the one of the extracted action, whatever
\* cuisine, dietary term and price were extracted; an utterance with no
\* vocabulary term and no price yields the all-absent record and the
\* capability menu.
C4_TemplateByAction ==
    call.done =>
        /\ C4_TemplateOf(call.reply) = C4_TemplateFor(callEntities.action)
        /\ (/\ termsIn(cuisines, call.userMessage) = {}
            /\ termsIn(dietary, call.userMessage) = {}
            /\ termsIn(actions, call.userMessage) = {}
            /\ pricesIn(call.userMessage) = {})
           => /\ callEntities =
                     [cuisine |-> <<>>, price |-> 0, dietary |-> <<>>, action |-> <<>>]
              /\ call.reply = defaultReply

\* C4 witness: a find utterance that also carries a dietary term has been
\* answered.
C4_Witness ==
    /\ call.done
    /\ callEntities.action = lit["find"]
    /\ callEntities.dietary # <<>>

\* the entry of a vocabulary the claim assigns to an utterance
C5_LastInList(list, message) ==
    IF termsIn(list, message) = {} THEN <<>> ELSE list[maxOf(termsIn(list, message))]

\* C5: each of cuisine, dietary and action is the entry latest in its list
\* among those the lower-cased utterance contains, and absent when it
\* contains none.
C5_LastMatchWins ==
    call.done =>
        /\ callEntities.cuisine = C5_LastInList(cuisines, call.userMessage)
        /\ callEntities.dietary = C5_LastInList(dietary, call.userMessage)
        /\ callEntities.action = C5_LastInList(actions, call.userMessage)

trackOrder == chars("track order")

\* C5 witness: an utterance with 'track' before 'order' in the text has been
\* processed.
C5_Witness ==
    /\ call.done
    /\ call.userMessage = trackOrder
    /\ callEntities.action = lit["track"]

optionsWord == chars("options")
underClause == chars(" under ₹")
sentenceEnd == chars(":\n")

\* the leading sentence the claim gives the find/search reply, up to the end
\* of its line
C6_Sentence(entities) ==
    lit["I found some great "]
    \o (IF entities.dietary # <<>> THEN entities.dietary \o lit[" "] ELSE <<>>)
    \o (IF entities.cuisine # <<>> THEN entities.cuisine \o lit[" "] ELSE <<>>)
    \o optionsWord
    \o (IF entities.price # 0 THEN underClause \o numberToString(entities.price) ELSE <<>>)
    \o sentenceEnd

\* C6: a find or search reply starts with 'I found some great ', the dietary
\* word, the cuisine word, 'options', the clause 'under ₹{price}' and ':',
\* absent fields contributing nothing ('I found some great options:' when all
\* three are absent).
C6_FindSentence ==
    (call.done /\ callEntities.action \in {lit["find"], lit["search"]})
        => startsWith(call.reply, C6_Sentence(callEntities))

\* the price the claim assigns to an utterance: the digit run of the
\* occurrence at index i
C7_PriceAt(message, i) == parseInt(matchAt(message, i))

\* C7 as stated: with more than one currency-prefixed digit run the price is
\* the one of the last occurrence.
C7_LastPriceWins ==
    (call.done /\ Cardinality(pricesIn(call.userMessage)) > 1)
        => callEntities.price
               = C7_PriceAt(call.userMessage, maxOf(pricesIn(call.userMessage)))

\* C7 as amended: with more than one currency-prefixed digit run the price is
\* the one of the first occurrence.
C7_FirstPriceWins ==
    (call.done /\ Cardinality(pricesIn(call.userMessage)) > 1)
        => callEntities.price
               = C7_PriceAt(call.userMessage, minOf(pricesIn(call.userMessage)))

twoPrices == chars("₹200 ₹007")

\* C7 witness: an utterance with two different prices has been processed.
C7_Witness ==
    /\ call.done
    /\ call.userMessage = twoPrices
    /\ callEntities.price = 200

-----------------------------------------------------------------------------
(* Properties of the chat screen, under Spec *)

\* a step of replyTimer: the head of the pending timers fires
replyStep == timers # <<>> /\ timers' = Tail(timers)

\* the utterance the firing timer answers
firedText == Head(timers).inputText

aiReplies == Cardinality({i \in 2..Len(messages) : messages[i].sender = "ai"})

\* the texts of the user messages from the i-th message on, in the order
\* they were sent
RECURSIVE userTextsFrom(_)
userTextsFrom(i) ==
    IF i > Len(messages) THEN <<>>
    ELSE IF messages[i].sender = "user" THEN <<messages[i].text>> \o userTextsFrom(i + 1)
    ELSE userTextsFrom(i + 1)
userTexts == userTextsFrom(1)

\* the utterances whose reply has been appended
completedTexts == SubSeq(userTexts, 1, aiReplies)

range(seq) == {seq[i] : i \in 1..Len(seq)}

\* C2: a turn whose utterance holds a currency-prefixed digit run of value p,
\* 0 included, leaves priceRange.max equal to p whatever it was; a turn
\* without a price leaves priceRange.max unchanged.
C2_PriceOverwrite ==
    [][replyStep =>
          IF pricesIn(firedText) # {}
          THEN userPreferences'.priceRange.max
                   = C7_PriceAt(firedText, minOf(pricesIn(firedText)))
          ELSE userPreferences'.priceRange.max = userPreferences.priceRange.max]_vars

C3_NoDuplicates ==
    \A i, j \in 1..Len(userPreferences.dietaryRestrictions) :
        i # j => userPreferences.dietaryRestrictions[i] # userPreferences.dietaryRestrictions[j]

C3_ContainsExtracted ==
    \A k \in 1..Len(completedTexts) :
        C5_LastInList(dietary, completedTexts[k]) # <<>>
            => C5_LastInList(dietary, completedTexts[k])
                   \in range(userPreferences.dietaryRestrictions)

C3_RepeatUnchanged ==
    (replyStep /\ C5_LastInList(dietary, firedText)
                      \in range(userPreferences.dietaryRestrictions))
        => userPreferences'.dietaryRestrictions = userPreferences.dietaryRestrictions

\* C3: dietaryRestrictions never holds an entry twice, holds the dietary term
\* of every completed turn, and is left unchanged by a turn whose dietary term
\* it already holds.
C3_DietarySet ==
    /\ [](C3_NoDuplicates /\ C3_ContainsExtracted)
    /\ [][C3_RepeatUnchanged]_vars

\* C3 witness: two completed turns named the same dietary term and a third
\* named another.
C3_Witness ==
    /\ Len(completedTexts) = 3
    /\ C5_LastInList(dietary, completedTexts[1]) = lit["vegan"]
    /\ C5_LastInList(dietary, completedTexts[2]) = lit["vegan"]
    /\ C5_LastInList(dietary, completedTexts[3]) = lit["vegetarian"]
    /\ userPreferences.dietaryRestrictions = <<lit["vegan"], lit["vegetarian"]>>

\* C8: priceRange.min stays 0, favoriteCuisines stays empty, lastOrder stays
\* absent, and no reply is the reorder form of the order reply.
C8_Frame ==
    /\ userPreferences.priceRange.min = 0
    /\ userPreferences.favoriteCuisines = <<>>
    /\ userPreferences.lastOrder = <<>>
    /\ \A i \in 1..Len(messages) :
           ~startsWith(messages[i].text, lit["Would you like to reorder from "])

\* C8 witness: both mutable fields have changed and an order reply has been
\* given.
C8_Witness ==
    /\ userPreferences.dietaryRestrictions # <<>>
    /\ userPreferences.priceRange.max # 1000
    /\ \E i \in 2..Len(messages) :
           /\ messages[i].sender = "ai"
           /\ messages[i].text
                  = lit["I can help you place an order. What would you like to eat?"]

\* every reply was delivered before the next utterance was sent
oneAtATime ==
    \A i \in 2..Len(messages) : messages[i].sender # messages[i - 1].sender

\* C9: with turns processed one at a time, the reply to a recommend utterance
\* is built from dietaryRestrictions as accumulated up to and including that
\* turn.
C9_MergeBeforeReply ==
    [][(replyStep /\ oneAtATime /\ C5_LastInList(actions, firedText) = lit["recommend"])
          => messages'[Len(messages')].text = recommendReply(userPreferences')]_vars

\* C10: isTyping is true exactly when some submitted utterance has not had
\* its reply appended.
C10_TypingTracksPending == isTyping <=> (userTurns > aiReplies)

=============================================================================
